---- MODULE Spec2Model ----
(***************************************************************************)
(* Model of src/main.py: a FastAPI application whose handlers read and     *)
(* write four SQLModel tables (product, customer, order, orderitem) of the *)
(* SQLite file ./db.sqlite.                                                *)
(*                                                                         *)
(* One action per handler.  An action is the whole request: routing, the   *)
(* handler body, the commit (or the rollback the session performs when the *)
(* handler raises) and the response.  The response of the last request is  *)
(* kept in the variable last.                                              *)
(*                                                                         *)
(* What the libraries do is part of what the handlers do, and is modelled  *)
(* as the libraries do it:                                                 *)
(*  - product and customer have the single INTEGER primary key id, so a    *)
(*    row inserted with id NULL gets max(id)+1, and one with an id gets    *)
(*    that id;                                                             *)
(*  - order has the primary key (id, customer_id) and orderitem the        *)
(*    primary key (id, order_id, product_id) (lines 25-26, 33-38): no      *)
(*    column of a composite key is generated, every one is NOT NULL, and   *)
(*    only the whole key is unique;                                        *)
(*  - a constraint violation surfaces at commit as an unhandled exception: *)
(*    response 500, nothing written;                                       *)
(*  - SQLite does not enforce FOREIGN KEY clauses unless the connection    *)
(*    asks for it, and line 53 does not;                                   *)
(*  - SELECT without ORDER BY on product and customer walks the table in   *)
(*    rowid order, which is id order; LIMIT -n is no limit and OFFSET -n   *)
(*    is offset 0;                                                         *)
(*  - assigning an attribute that is no field of a SQLModel class raises   *)
(*    ValueError ('"Order" object has no field "total_quantity"');         *)
(*  - deleting a parent of a one-to-many relationship without a delete     *)
(*    cascade sets the children's foreign key to NULL, and raises          *)
(*    AssertionError ("Dependency rule tried to blank-out primary key      *)
(*    column") when that column is part of the child's primary key.        *)
(*                                                                         *)
(* Request bodies are the JSON objects the boundary validation accepts:    *)
(* every field without a default is present; a field with a default may be *)
(* omitted.  Floats are modelled by integers (only small whole amounts     *)
(* occur).  A relationship collection is modelled as the set of its rows.  *)
(***************************************************************************)
EXTENDS Integers, Sequences, FiniteSets, TLC

VARIABLES products, customers, orders, items, last

vars == <<products, customers, orders, items, last>>
tables == <<products, customers, orders, items>>

(* ------------------------------ bounds -------------------------------- *)
MaxId == 2
MaxItems == 2
MaxRows == 12

Ids == 1..MaxId

(* ------------------------------ values -------------------------------- *)
\* Python None / JSON null / SQL NULL in an integer column and in a string column.
NoId == 0
NoStr == "null"
\* datetime.utcnow(), the default of Order.order_date: the clock is abstracted to one instant.
Now == "utcnow"

Min(a, b) == IF a < b THEN a ELSE b
Max(a, b) == IF a < b THEN b ELSE a

\* body[k] when the JSON object has the key k, the field's default otherwise.
Field(body, k, default) == IF k \in DOMAIN body THEN body[k] ELSE default

\* The JSON object body with the key k set to v.
With(body, k, v) == [f \in DOMAIN body \cup {k} |-> IF f = k THEN v ELSE body[f]]

(* ------------------------------ tables -------------------------------- *)
ProductColumns == {"id", "name", "price", "description"}

Product(body) ==
    [id          |-> Field(body, "id", NoId),
     name        |-> body.name,
     price       |-> body.price,
     description |-> Field(body, "description", NoStr)]

Customer(body) ==
    [id           |-> Field(body, "id", NoId),
     name         |-> body.name,
     surname      |-> body.surname,
     email        |-> body.email,
     username     |-> body.username,
     password     |-> body.password,
     address      |-> Field(body, "address", NoStr),
     phone_number |-> Field(body, "phone_number", NoStr)]

OrderColumns == {"id", "customer_id", "order_date", "total_amount"}

Order(body) ==
    [id           |-> Field(body, "id", NoId),
     customer_id  |-> Field(body, "customer_id", NoId),
     order_date   |-> Field(body, "order_date", Now),
     total_amount |-> body.total_amount]

OrderItemColumns ==
    {"id", "quantity", "price_per_unit", "total_price", "order_id", "product_id"}

OrderItem(body) ==
    [id             |-> Field(body, "id", NoId),
     quantity       |-> body.quantity,
     price_per_unit |-> body.price_per_unit,
     total_price    |-> body.total_price,
     order_id       |-> Field(body, "order_id", NoId),
     product_id     |-> Field(body, "product_id", NoId)]

\* The relationship collections: the rows whose foreign key is the parent's id.
customer_orders(customer_id) == {o \in orders : o.customer_id = customer_id}
order_items(order_id) == {it \in items : it.order_id = order_id}
stock_quantity(product_id) == {it \in items : it.product_id = product_id}

(* ----------------------------- the store ------------------------------ *)
\* The id SQLite gives a row inserted with id NULL into a table with an
\* INTEGER PRIMARY KEY: one more than the largest id in the table.
RECURSIVE MaxOf(_)
MaxOf(S) == IF S = {} THEN 0
            ELSE LET x == CHOOSE y \in S : TRUE IN Max(x, MaxOf(S \ {x}))

AssignedIdByCount(table, row) == IF row.id = NoId THEN Cardinality(table) + 1 ELSE row.id

NextRowId(table) == MaxOf({r.id : r \in table}) + 1

\* The id the row of a POST body is stored under.
AssignedId(table, row) == IF row.id = NoId THEN NextRowId(table) ELSE row.id

\* The rows of a table in the order an unordered SELECT returns them.
RECURSIVE SelectAll(_)
SelectAll(table) ==
    IF table = {} THEN <<>>
    ELSE LET r == CHOOSE x \in table : \A y \in table : x.id <= y.id
         IN  <<r>> \o SelectAll(table \ {r})

OffsetLimitInclusive(rows, skip, limit) ==
    LET off  == IF skip < 0 THEN 0 ELSE skip
        rest == SubSeq(rows, off + 1, Len(rows))
    IN  IF limit < 0 THEN rest ELSE SubSeq(rest, 1, Min(limit + 1, Len(rest)))

\* .offset(skip).limit(limit) on the rows of a SELECT.
OffsetLimit(rows, skip, limit) ==
    LET off  == IF skip < 0 THEN 0 ELSE skip
        rest == SubSeq(rows, off + 1, Len(rows))
    IN  IF limit < 0 THEN rest ELSE SubSeq(rest, 1, Min(limit, Len(rest)))

\* db.delete(row); db.commit(): DELETE of the one row with row's primary key.
DeletedByIdOnly(table, row) == {r \in table : r.id # row.id}
Deleted(table, row) == table \ {row}

(* ---------------------------- responses ------------------------------- *)
\* A response body: one row, a JSON array of rows (a page, in order; a
\* relationship collection, as the set of its rows), or none.
NoResult == [none |-> TRUE]
NoArgs == [none |-> TRUE]
Row(r) == [row |-> r]
Rows(page) == [rows |-> page]
Collection(rows) == [collection |-> rows]

Ok(result) == [status |-> 200, detail |-> "", result |-> result]
HTTPException(status_code, detail) ==
    [status |-> status_code, detail |-> detail, result |-> NoResult]
\* An exception no handler catches.
ServerError == [status |-> 500, detail |-> "Internal Server Error", result |-> NoResult]

Request(op, args, response) ==
    [op |-> op, args |-> args, status |-> response.status,
     detail |-> response.detail, result |-> response.result]

(* -------------------------- product handlers -------------------------- *)
\* skip: int = 0, limit: int = 10
DefaultSkip == 0
DefaultLimit == 10

get_products_response(skip, limit) == Ok(Rows(OffsetLimit(SelectAll(products), skip, limit)))

get_products(skip, limit) ==
    /\ last' = Request("get_products", [skip |-> skip, limit |-> limit],
                       get_products_response(skip, limit))
    /\ UNCHANGED tables

create_product(body) ==
    LET product == Product(body)
        row     == [product EXCEPT !.id = AssignedId(products, product)]
    IN  IF \E p \in products : p.id = row.id
        THEN \* UNIQUE constraint failed: product.id
             /\ last' = Request("create_product", [body |-> body], ServerError)
             /\ UNCHANGED tables
        ELSE /\ products' = products \cup {row}
             /\ last' = Request("create_product", [body |-> body], Ok(Row(row)))
             /\ UNCHANGED <<customers, orders, items>>

\* select(Product).where(Product.id == product_id): at most one row, id being the key.
SelectProduct(product_id) == {p \in products : p.id = product_id}

get_product_response(product_id) ==
    IF SelectProduct(product_id) = {}
    THEN HTTPException(404, "Product not found")
    ELSE Ok(Row(CHOOSE p \in SelectProduct(product_id) : TRUE))

get_product(product_id) ==
    /\ last' = Request("get_product", [product_id |-> product_id],
                       get_product_response(product_id))
    /\ UNCHANGED tables

SetProductAttrsGiven(product, updated_product) ==
    [k \in ProductColumns |->
        IF k = "id" \/ (k = "description" /\ updated_product[k] = NoStr)
        THEN product[k] ELSE updated_product[k]]

\* for key, value in updated_product.dict(exclude={"id"}).items(): setattr(product, key, value)
SetProductAttrs(product, updated_product) ==
    [k \in ProductColumns |->
        IF k \in ProductColumns \ {"id"} THEN updated_product[k] ELSE product[k]]

update_product(product_id, body) ==
    LET args == [product_id |-> product_id, body |-> body] IN
    IF SelectProduct(product_id) = {}
    THEN /\ last' = Request("update_product", args, HTTPException(404, "Product not found"))
         /\ UNCHANGED tables
    ELSE LET product == CHOOSE p \in SelectProduct(product_id) : TRUE
             row     == SetProductAttrs(product, Product(body))
         IN  /\ products' = (products \ {product}) \cup {row}
             /\ last' = Request("update_product", args, Ok(Row(row)))
             /\ UNCHANGED <<customers, orders, items>>

\* db.delete(product); db.commit(): the flush blanks the foreign key of the
\* rows of product.stock_quantity, which is part of their primary key.
DeleteFlushes(product) == stock_quantity(product.id) = {}

delete_product(product_id) ==
    LET args == [product_id |-> product_id] IN
    IF SelectProduct(product_id) = {}
    THEN /\ last' = Request("delete_product", args, HTTPException(404, "Product not found"))
         /\ UNCHANGED tables
    ELSE LET product == CHOOSE p \in SelectProduct(product_id) : TRUE
         IN  IF DeleteFlushes(product)
             THEN /\ products' = Deleted(products, product)
                  /\ last' = Request("delete_product", args, Ok(Row(product)))
                  /\ UNCHANGED <<customers, orders, items>>
             ELSE /\ last' = Request("delete_product", args, ServerError)
                  /\ UNCHANGED tables

(* -------------------------- customer handlers ------------------------- *)
get_customers_response(skip, limit) == Ok(Rows(OffsetLimit(SelectAll(customers), skip, limit)))

get_customers(skip, limit) ==
    /\ last' = Request("get_customers", [skip |-> skip, limit |-> limit],
                       get_customers_response(skip, limit))
    /\ UNCHANGED tables

create_customer(body) ==
    LET customer == Customer(body)
        row      == [customer EXCEPT !.id = AssignedId(customers, customer)]
    IN  IF \E c \in customers : c.id = row.id
        THEN \* UNIQUE constraint failed: customer.id
             /\ last' = Request("create_customer", [body |-> body], ServerError)
             /\ UNCHANGED tables
        ELSE /\ customers' = customers \cup {row}
             /\ last' = Request("create_customer", [body |-> body], Ok(Row(row)))
             /\ UNCHANGED <<products, orders, items>>

SelectCustomer(customer_id) == {c \in customers : c.id = customer_id}

get_customer_response(customer_id) ==
    IF SelectCustomer(customer_id) = {}
    THEN HTTPException(404, "Customer not found")
    ELSE Ok(Row(CHOOSE c \in SelectCustomer(customer_id) : TRUE))

get_customer(customer_id) ==
    /\ last' = Request("get_customer", [customer_id |-> customer_id],
                       get_customer_response(customer_id))
    /\ UNCHANGED tables

get_customer_orders_response(customer_id) ==
    IF SelectCustomer(customer_id) = {}
    THEN HTTPException(404, "Customer not found")
    ELSE Ok(Collection(customer_orders(customer_id)))

get_customer_orders(customer_id) ==
    /\ last' = Request("get_customer_orders", [customer_id |-> customer_id],
                       get_customer_orders_response(customer_id))
    /\ UNCHANGED tables

(* --------------------------- order handlers --------------------------- *)
\* INSERT INTO "order": id and customer_id are NOT NULL and not generated,
\* and (id, customer_id) is unique.
OrderInsertable(order) ==
    /\ order.id # NoId
    /\ order.customer_id # NoId
    /\ ~ \E o \in orders : o.id = order.id /\ o.customer_id = order.customer_id

create_order(body) ==
    LET order == Order(body) IN
    IF OrderInsertable(order)
    THEN /\ orders' = orders \cup {order}
         /\ last' = Request("create_order", [body |-> body], Ok(Row(order)))
         /\ UNCHANGED <<products, customers, items>>
    ELSE /\ last' = Request("create_order", [body |-> body], ServerError)
         /\ UNCHANGED tables

\* select(Order).where(Order.id == order_id): orders of different customers
\* may share an id, and .first() returns one of them.
SelectOrder(order_id) == {o \in orders : o.id = order_id}

get_order(order_id) ==
    LET args == [order_id |-> order_id] IN
    /\ IF SelectOrder(order_id) = {}
       THEN last' = Request("get_order", args, HTTPException(404, "Order not found"))
       ELSE \E order \in SelectOrder(order_id) : last' = Request("get_order", args, Ok(Row(order)))
    /\ UNCHANGED tables

\* INSERT INTO orderitem: the three key columns are NOT NULL and not
\* generated, and (id, order_id, product_id) is unique.
ItemInsertable(item) ==
    /\ item.id # NoId
    /\ item.order_id # NoId
    /\ item.product_id # NoId
    /\ ~ \E it \in items : /\ it.id = item.id
                           /\ it.order_id = item.order_id
                           /\ it.product_id = item.product_id

\* order.total_quantity = total_quantity: setattr on a SQLModel instance
\* succeeds only for a field of the class.
SetAttrAllowed(columns, name) == name \in columns

add_item_to_order(order_id, body) ==
    LET args == [order_id |-> order_id, body |-> body] IN
    IF SelectOrder(order_id) = {}
    THEN /\ last' = Request("add_item_to_order", args, HTTPException(404, "Order not found"))
         /\ UNCHANGED tables
    ELSE \E order \in SelectOrder(order_id) :
         LET item == [OrderItem(body) EXCEPT !.order_id = order.id] IN
         IF SetAttrAllowed(OrderColumns, "total_quantity") /\ ItemInsertable(item)
         THEN /\ items' = items \cup {item}
              /\ last' = Request("add_item_to_order", args, Ok(Row(item)))
              /\ UNCHANGED <<products, customers, orders>>
         ELSE /\ last' = Request("add_item_to_order", args, ServerError)
              /\ UNCHANGED tables

get_order_items_response(order_id) ==
    IF SelectOrder(order_id) = {}
    THEN HTTPException(404, "Order not found")
    ELSE Ok(Collection(order_items(order_id)))

get_order_items(order_id) ==
    /\ last' = Request("get_order_items", [order_id |-> order_id],
                       get_order_items_response(order_id))
    /\ UNCHANGED tables

SelectItemOfAnyOrder(order_id, item_id) == {it \in items : it.id = item_id}

\* select(OrderItem).where(OrderItem.id == item_id, OrderItem.order_id == order_id):
\* items of different products may share (id, order_id), and .first() returns one.
SelectItem(order_id, item_id) ==
    {it \in items : it.id = item_id /\ it.order_id = order_id}

SetItemAttrsButId(item, updated_item) ==
    [k \in OrderItemColumns |-> IF k # "id" THEN updated_item[k] ELSE item[k]]

\* for key, value in updated_item.dict(exclude={"id", "order_id", "product_id"}).items():
\*     setattr(item, key, value)
SetItemAttrs(item, updated_item) ==
    [k \in OrderItemColumns |->
        IF k \in OrderItemColumns \ {"id", "order_id", "product_id"}
        THEN updated_item[k] ELSE item[k]]

update_order_item(order_id, item_id, body) ==
    LET args == [order_id |-> order_id, item_id |-> item_id, body |-> body] IN
    IF SelectOrder(order_id) = {}
    THEN /\ last' = Request("update_order_item", args, HTTPException(404, "Order not found"))
         /\ UNCHANGED tables
    ELSE IF SelectItem(order_id, item_id) = {}
    THEN /\ last' = Request("update_order_item", args,
                            HTTPException(404, "Order item not found"))
         /\ UNCHANGED tables
    ELSE \E item \in SelectItem(order_id, item_id) :
         LET row == SetItemAttrs(item, OrderItem(body)) IN
         /\ items' = (items \ {item}) \cup {row}
         /\ last' = Request("update_order_item", args, Ok(Row(row)))
         /\ UNCHANGED <<products, customers, orders>>

delete_order_item(order_id, item_id) ==
    LET args == [order_id |-> order_id, item_id |-> item_id] IN
    IF SelectOrder(order_id) = {}
    THEN /\ last' = Request("delete_order_item", args, HTTPException(404, "Order not found"))
         /\ UNCHANGED tables
    ELSE IF SelectItem(order_id, item_id) = {}
    THEN /\ last' = Request("delete_order_item", args,
                            HTTPException(404, "Order item not found"))
         /\ UNCHANGED tables
    ELSE \E item \in SelectItem(order_id, item_id) :
         /\ items' = Deleted(items, item)
         /\ last' = Request("delete_order_item", args, Ok(Row(item)))
         /\ UNCHANGED <<products, customers, orders>>

(* ----------------------------- the inputs ----------------------------- *)
\* The field values of the request bodies.  A body may also carry the key
\* columns; description (and every other field with a default) may be left out.
ProductValues ==
    {[name |-> "a", price |-> 1],
     [name |-> "b", price |-> 2, description |-> "d"]}

CustomerValues ==
    {[name |-> "A", surname |-> "B", email |-> "a@b.com", username |-> "ab",
      password |-> "x"]}

OrderValues == {[total_amount |-> 5]}

ItemValues ==
    {[quantity |-> 1, price_per_unit |-> 1, total_price |-> 1],
     [quantity |-> 2, price_per_unit |-> 2, total_price |-> 4]}

First(values) == {CHOOSE v \in values : \A w \in values : v.total_price <= w.total_price}
Plain(values) == {v \in values : "description" \notin DOMAIN v}

ProductBodies(values, ids) ==
    values \cup {With(v, "id", i) : v \in values, i \in ids}

CustomerBodies ==
    CustomerValues \cup {With(v, "id", i) : v \in CustomerValues, i \in Ids}

OrderBodies ==
    OrderValues
    \cup {With(v, "id", i) : v \in OrderValues, i \in Ids}
    \cup {With(With(v, "id", i), "customer_id", c) : v \in OrderValues, i \in Ids, c \in Ids}

ItemKeyed(v, i, o, p) == With(With(With(v, "id", i), "order_id", o), "product_id", p)

ItemBodies(values) ==
    values \cup {ItemKeyed(v, k, k, k) : v \in values, k \in Ids}

Pages == {<<DefaultSkip, DefaultLimit>>, <<1, 1>>}

(* ------------------------------- Init --------------------------------- *)
\* The store is the file ./db.sqlite, which outlives the process, and
\* create_all (line 55) creates only the tables that are missing: the state
\* after start-up is what the file holds.  InitFile(n) ranges over the files
\* of at most n order items in which every key is unique, every foreign key
\* refers to a stored row, every order's total_amount is the sum of its
\* items' total_price, and nothing is stored that no item needs: further
\* products, customers and orders come from the handlers.
RECURSIVE SetsUpTo(_, _)
SetsUpTo(S, n) ==
    IF n = 0 THEN {{}}
    ELSE LET T == SetsUpTo(S, n - 1) IN T \cup {t \cup {x} : t \in T, x \in S}

RECURSIVE SumTotalPrice(_)
SumTotalPrice(S) ==
    IF S = {} THEN 0
    ELSE LET it == CHOOSE x \in S : TRUE IN it.total_price + SumTotalPrice(S \ {it})

KeyUnique(I) ==
    \A a, b \in I :
        (a.id = b.id /\ a.order_id = b.order_id /\ a.product_id = b.product_id) => a = b

StoredItemsOf(values) ==
    {OrderItem(ItemKeyed(v, i, o, p)) : v \in values, i \in Ids, o \in Ids, p \in Ids}
StoredProduct(i) == [Product(CHOOSE v \in Plain(ProductValues) : TRUE) EXCEPT !.id = i]
StoredCustomer(i) == [Customer(CHOOSE v \in CustomerValues : TRUE) EXCEPT !.id = i]

InitFile(n) ==
    /\ \E I \in SetsUpTo(StoredItemsOf(ItemValues), n) : KeyUnique(I) /\ items = I
    /\ products = {StoredProduct(it.product_id) : it \in items}
    /\ \E owner \in [{it.order_id : it \in items} -> Ids] :
           orders = {[id |-> o, customer_id |-> owner[o], order_date |-> Now,
                      total_amount |-> SumTotalPrice(order_items(o))] : o \in DOMAIN owner}
    /\ customers = {StoredCustomer(o.customer_id) : o \in orders}
    /\ last = Request("start", NoArgs, Ok(NoResult))

\* Every handler, on a file of at most one order item.
Init == InitFile(1)

(* ------------------------------- Next --------------------------------- *)
\* The handlers of the products.
Catalog(values) ==
    \/ \E pg \in Pages : get_products(pg[1], pg[2])
    \/ \E body \in ProductBodies(values, Ids) :
           AssignedId(products, Product(body)) \in Ids /\ create_product(body)
    \/ \E product_id \in Ids : get_product(product_id)
    \/ \E product_id \in Ids, body \in ProductBodies(values, Ids) :
           update_product(product_id, body)
    \/ \E product_id \in Ids : delete_product(product_id)

\* The handlers of the customers and of the orders.
Accounts ==
    \/ \E pg \in Pages : get_customers(pg[1], pg[2])
    \/ \E body \in CustomerBodies :
           AssignedId(customers, Customer(body)) \in Ids /\ create_customer(body)
    \/ \E customer_id \in Ids : get_customer(customer_id)
    \/ \E body \in OrderBodies : create_order(body)
    \/ \E customer_id \in Ids : get_customer_orders(customer_id)
    \/ \E order_id \in Ids : get_order(order_id)

\* The handlers of the order items.
Lines(values) ==
    \/ \E order_id \in Ids, body \in ItemBodies(values) : add_item_to_order(order_id, body)
    \/ \E order_id \in Ids : get_order_items(order_id)
    \/ \E order_id \in Ids, item_id \in Ids, body \in ItemBodies(values) :
           update_order_item(order_id, item_id, body)
    \/ \E order_id \in Ids, item_id \in Ids : delete_order_item(order_id, item_id)

\* Every handler, with one value of each body.
Next ==
    \/ Catalog(Plain(ProductValues))
    \/ Accounts
    \/ Lines(First(ItemValues))

Spec == Init /\ [][Next]_vars

\* The product handlers with every product body.
NextCatalog == Catalog(ProductValues)
SpecCatalog == InitFile(1) /\ [][NextCatalog]_vars

\* The order item handlers with every item body, on a file of MaxItems items.
NextLines == Lines(ItemValues)
SpecLines == InitFile(MaxItems) /\ [][NextLines]_vars

\* The listing handlers on tables of up to MaxRows rows, from an empty file:
\* products are created with the id left out or given (one of Ids).
ListPages ==
    {<<skip, limit>> : skip \in {-1, DefaultSkip, 2, MaxRows}, limit \in {-1, 0, 3, DefaultLimit}}

NextList ==
    \/ \E pg \in ListPages : get_products(pg[1], pg[2])
    \/ \E body \in ProductBodies(Plain(ProductValues), Ids) :
           AssignedId(products, Product(body)) \in 1..MaxRows /\ create_product(body)
    \/ \E pg \in ListPages : get_customers(pg[1], pg[2])
    \/ \E body \in CustomerBodies :
           AssignedId(customers, Customer(body)) \in Ids /\ create_customer(body)

SpecList == InitFile(0) /\ [][NextList]_vars

(* ============================== claims ================================ *)
\* What the claims say of the tables, stated on the rows themselves.
HasProduct(id) == \E p \in products : p.id = id
HasCustomer(id) == \E c \in customers : c.id = id
HasOrder(id) == \E o \in orders : o.id = id
ItemsUnder(order_id, item_id) == {it \in items : it.order_id = order_id /\ it.id = item_id}
SameKey(a, b) == a.id = b.id /\ a.order_id = b.order_id /\ a.product_id = b.product_id
Supplied(body, k, default) == IF k \in DOMAIN body THEN body[k] ELSE default

(* ---- C1 ---- *)
\* C1: add_item(A, item) on an existing order A persists the item with
\* order_id = A, whatever order_id the payload carried; list_items(A) then
\* contains it and list_items(B) of no other order B does.
C1_AddItemPersistsUnderItsOrder ==
    (last.op = "add_item_to_order" /\ HasOrder(last.args.order_id)) =>
        /\ last.status = 200
        /\ last.result.row \in items
        /\ last.result.row.order_id = last.args.order_id
        /\ last.result.row.quantity = last.args.body.quantity
        /\ last.result.row.price_per_unit = last.args.body.price_per_unit
        /\ last.result.row.total_price = last.args.body.total_price
        /\ last.result.row \in get_order_items_response(last.args.order_id).result.collection
        /\ \A B \in Ids \ {last.args.order_id} :
               HasOrder(B) => last.result.row \notin get_order_items_response(B).result.collection

(* ---- C2 ---- *)
\* The message documented for a request addressed to an absent id, "" when
\* every id the request names is stored.
NotFoundDetail(op, args) ==
    CASE op \in {"get_product", "update_product", "delete_product"} ->
             IF HasProduct(args.product_id) THEN "" ELSE "Product not found"
      [] op \in {"get_customer", "get_customer_orders"} ->
             IF HasCustomer(args.customer_id) THEN "" ELSE "Customer not found"
      [] op \in {"get_order", "add_item_to_order", "get_order_items"} ->
             IF HasOrder(args.order_id) THEN "" ELSE "Order not found"
      [] op \in {"update_order_item", "delete_order_item"} ->
             IF ~HasOrder(args.order_id) THEN "Order not found"
             ELSE IF ItemsUnder(args.order_id, args.item_id) = {} THEN "Order item not found"
             ELSE ""
      [] OTHER -> ""

\* C2: a request addressed to an absent product, customer, order or order
\* item (an item absent under the order named) ends in 404 with the
\* documented message and leaves every table as it was.
C2_AbsentIdIsNotFound ==
    [][NotFoundDetail(last'.op, last'.args) # "" =>
           /\ last'.status = 404
           /\ last'.detail = NotFoundDetail(last'.op, last'.args)
           /\ tables' = tables]_vars

\* C2 witness: an item id stored under another order only, asked for under an
\* order that exists, was answered "Order item not found".
C2_Witness ==
    /\ last.op = "delete_order_item"
    /\ last.status = 404
    /\ last.detail = "Order item not found"
    /\ \E it \in items : it.id = last.args.item_id /\ it.order_id # last.args.order_id

(* ---- C3 ---- *)
\* The row update_product(id, payload) must leave in place of old.
C3_Updated(old, body) ==
    [id          |-> old.id,
     name        |-> body.name,
     price       |-> body.price,
     description |-> Supplied(body, "description", NoStr)]

\* C3: update_product on an existing product keeps its id, sets name, price
\* and description to the payload's values, an omitted description becoming
\* the default null, and changes no other product.
C3_UpdateOverwritesAllButId ==
    [][(last'.op = "update_product" /\ HasProduct(last'.args.product_id)) =>
           \E old \in products :
               /\ old.id = last'.args.product_id
               /\ last'.status = 200
               /\ last'.result.row = C3_Updated(old, last'.args.body)
               /\ products' = (products \ {old}) \cup {C3_Updated(old, last'.args.body)}]_vars

\* C3 witness: an update whose payload omits description and carries another
\* id, with a second product stored, left the default description.
C3_Witness ==
    /\ last.op = "update_product"
    /\ last.status = 200
    /\ "description" \notin DOMAIN last.args.body
    /\ "id" \in DOMAIN last.args.body
    /\ last.args.body.id # last.args.product_id
    /\ last.result.row.description = NoStr
    /\ last.result.row.name = "a"
    /\ \E p \in products : p.id # last.args.product_id /\ p.name = "b"

(* ---- C4 ---- *)
\* The representation create_product must return for a payload, under id.
C4_Created(body, id) ==
    [id          |-> id,
     name        |-> body.name,
     price       |-> body.price,
     description |-> Supplied(body, "description", NoStr)]

\* C4 as stated: for every store and every product payload create_product
\* returns a representation with an assigned id, and get_product on that id
\* returns the name, price and description supplied.
C4_CreateThenGetEveryPayload ==
    last.op = "create_product" =>
        /\ last.status = 200
        /\ last.result.row.id # NoId
        /\ get_product_response(last.result.row.id)
               = Ok(Row(C4_Created(last.args.body, last.result.row.id)))

\* C4 amended: the same for every payload whose id is left out (null) or is
\* the id of no stored product; the id returned is the payload's when it
\* carries one; the products stored before stay as they were, and only
\* update_product and delete_product change or remove a stored product.
C4_CreateThenGet ==
    [][/\ (/\ last'.op = "create_product"
           /\ ("id" \in DOMAIN last'.args.body => ~HasProduct(last'.args.body.id)))
          => /\ last'.status = 200
             /\ last'.result.row.id # NoId
             /\ "id" \in DOMAIN last'.args.body => last'.result.row.id = last'.args.body.id
             /\ \E id \in Ids :
                    /\ id = last'.result.row.id
                    /\ get_product_response(id)' = Ok(Row(C4_Created(last'.args.body, id)))
             /\ products' = products \cup {last'.result.row}
             /\ last'.result.row \notin products
       /\ last'.op \notin {"update_product", "delete_product"} => products \subseteq products']_vars

\* C4 witness: a product created without an id, next to a stored one, is
\* what get_product returns.
C4_Witness ==
    /\ last.op = "create_product"
    /\ last.status = 200
    /\ "id" \notin DOMAIN last.args.body
    /\ Cardinality(products) = 2
    /\ get_product_response(last.result.row.id).result.row.name = last.args.body.name

(* ---- C5 ---- *)
\* C5: a delete_item that succeeds removes the one item it returns, an item
\* of that id under that order; list_items of the order no longer has it,
\* every other item is listed as before under its order, and an item row
\* comes into the table only by add_item.
C5_DeletedItemIsGone ==
    [][/\ (last'.op = "delete_order_item" /\ last'.status = 200) =>
              /\ last'.result.row \in items
              /\ last'.result.row.id = last'.args.item_id
              /\ last'.result.row.order_id = last'.args.order_id
              /\ items' = items \ {last'.result.row}
              /\ \A B \in Ids :
                     IF B = last'.args.order_id
                     THEN get_order_items_response(B)'.result.collection
                              = get_order_items_response(B).result.collection \ {last'.result.row}
                     ELSE get_order_items_response(B)' = get_order_items_response(B)
       /\ (last'.op = "delete_order_item" /\ NotFoundDetail(last'.op, last'.args) = "")
              => last'.status = 200
       /\ (\E it \in items' : \A old \in items : ~SameKey(it, old))
              => last'.op = "add_item_to_order"]_vars

\* C5 witness: an item was deleted from an order that still lists another
\* item.
C5_Witness ==
    /\ last.op = "delete_order_item"
    /\ last.status = 200
    /\ last.result.row \notin items
    /\ \E it \in items : it.order_id = last.args.order_id

(* ---- C6 ---- *)
\* The number of rows of table whose id is below row's.
Rank(table, row) == Cardinality({r \in table : r.id < row.id})

\* The page (skip, limit) of the table in ascending id order.
IsPage(page, table, skip, limit) ==
    /\ Len(page) = Min(limit, Max(0, Cardinality(table) - skip))
    /\ \A i \in 1..Len(page) : page[i] \in table /\ Rank(table, page[i]) = skip + i - 1

ListedTable(op) == IF op = "get_products" THEN products ELSE customers

\* C6 amended: for skip >= 0 and limit >= 0, list(skip, limit) on a table of
\* N rows returns the rows at positions skip .. skip+limit-1 of the ascending
\* id order, min(limit, max(0, N-skip)) rows; with the defaults, nothing on an
\* empty table and the 10 rows of smallest id when N > 10; the store is not
\* modified.
C6_PageInIdOrder ==
    [][(/\ last'.op \in {"get_products", "get_customers"}
        /\ last'.args.skip >= 0
        /\ last'.args.limit >= 0)
          => /\ last'.status = 200
             /\ IsPage(last'.result.rows, ListedTable(last'.op), last'.args.skip, last'.args.limit)
             /\ tables' = tables]_vars

\* C6 as stated: the positions are those of the insertion order, so a row
\* just created is listed after every row stored before it.
C6_PageInInsertionOrder ==
    [][(last'.op = "create_product" /\ last'.status = 200) =>
           get_products_response(DefaultSkip, MaxRows)'.result.rows
               = Append(get_products_response(DefaultSkip, MaxRows).result.rows, last'.result.row)]_vars

\* C6 witness: the default page of a table of more than 10 products is its 10
\* rows of smallest id.
C6_Witness ==
    /\ last.op = "get_products"
    /\ last.args = [skip |-> DefaultSkip, limit |-> DefaultLimit]
    /\ Cardinality(products) > DefaultLimit
    /\ Len(last.result.rows) = DefaultLimit
    /\ \A i \in 1..DefaultLimit : last.result.rows[i].id = i

(* ---- C7 ---- *)
\* C7: get_orders(c) answers NotFound when customer c is not stored and
\* otherwise the stored orders whose customer_id is c; right after the
\* customer is created that list is empty.
C7_OrdersOfCustomer ==
    /\ \A c \in Ids :
           get_customer_orders_response(c) =
               IF HasCustomer(c) THEN Ok(Collection({o \in orders : o.customer_id = c}))
               ELSE HTTPException(404, "Customer not found")
    /\ (last.op = "create_customer" /\ last.status = 200) =>
           get_customer_orders_response(last.result.row.id) = Ok(Collection({}))

(* ---- C8 ---- *)
\* C8: every stored order's total_amount is the sum of total_price over the
\* items attached to it.
C8_TotalAmountIsSumOfItems ==
    \A o \in orders :
        o.total_amount = SumTotalPrice({it \in items : it.order_id = o.id})

(* ---- C9 ---- *)
\* The item update_item must leave in place of old.
C9_Updated(old, body) ==
    [id             |-> old.id,
     quantity       |-> body.quantity,
     price_per_unit |-> body.price_per_unit,
     total_price    |-> body.total_price,
     order_id       |-> old.order_id,
     product_id     |-> old.product_id]

\* C9: update_item changes an item only if one of that id is stored under
\* exactly that order (otherwise "Order item not found" and no change); on
\* success one such item gets the payload's quantity, price_per_unit and
\* total_price and keeps its id, order_id and product_id, whatever keys the
\* payload carried, and no other item and no order changes.
C9_UpdateItemScopedToOrder ==
    [][(last'.op = "update_order_item" /\ HasOrder(last'.args.order_id)) =>
           IF ItemsUnder(last'.args.order_id, last'.args.item_id) = {}
           THEN /\ last'.status = 404
                /\ last'.detail = "Order item not found"
                /\ tables' = tables
           ELSE /\ last'.status = 200
                /\ \E old \in ItemsUnder(last'.args.order_id, last'.args.item_id) :
                       /\ last'.result.row = C9_Updated(old, last'.args.body)
                       /\ items' = (items \ {old}) \cup {C9_Updated(old, last'.args.body)}
                /\ UNCHANGED <<products, customers, orders>>]_vars

\* C9 witness: an item was updated by a payload carrying another id, order_id
\* and product_id, with another item stored.
C9_Witness ==
    /\ last.op = "update_order_item"
    /\ last.status = 200
    /\ "id" \in DOMAIN last.args.body
    /\ last.args.body.id # last.args.item_id
    /\ last.args.body.order_id # last.args.order_id
    /\ last.args.body.product_id # last.result.row.product_id
    /\ last.result.row.quantity = 2
    /\ \E it \in items : it # last.result.row /\ it.quantity = 1

(* ---- C10 ---- *)
\* C10: delete_product on a stored product answers 200 with the deleted row
\* and removes it, whether or not order items refer to it, and leaves the
\* order items as they were.
C10_DeleteProductIgnoresItems ==
    [][(last'.op = "delete_product" /\ HasProduct(last'.args.product_id)) =>
           \E p \in products :
               /\ p.id = last'.args.product_id
               /\ last'.status = 200
               /\ last'.result.row = p
               /\ products' = products \ {p}
               /\ items' = items]_vars

====
